---- MODULE Spec2Model ----
(***************************************************************************)
(* Model of the wine-searcher acquisition pipeline of antyser/wineapp:     *)
(*   - core/utils.py: fetch_url (tenacity retry policy), fetch and its     *)
(*     bounded_fetch workers (semaphore, per-URL exception handling);      *)
(*   - core/utils.py: fetch_v2 and fetch_proxies (proxy rotation);         *)
(*   - core/wines/wine_searcher.py: compose_search_url, parse_wine,        *)
(*     extract_offers, batch_fetch_wines, process_wine_list;               *)
(*   - core/wines/analysis/utils.py: process_wine_list;                    *)
(*   - core/wines/service.py: save_wines_batch.                            *)
(* SpecFetch is one call fetch(urls), stepped per URL; SpecConc the same   *)
(* with more URLs than semaphore slots.  Spec is a sequence of runs of     *)
(* process_wine_list against one output (checkpoint) file; SpecSink one    *)
(* run together with its save tasks and the end of the event loop.         *)
(* SpecParse and SpecId apply parse_wine to one and to two pages.  SpecUrl,*)
(* SpecProxy and SpecSave are one call each of compose_search_url,         *)
(* fetch_v2 and save_wines_batch.                                          *)
(***************************************************************************)
EXTENDS Integers, Sequences, FiniteSets, TLC

VARIABLES
    \* ---- one call of fetch(urls) (core/utils.py) ----
    urls,          \* the input list: urls[i] is the i-th URL
    fstate,        \* per position: Pending, Fetching, TransientFailure, Success, PermanentFailure
    attempts,      \* per position: number of fetch_url attempts started
    last,          \* per position: outcome of the latest attempt
    seen,          \* per position: every outcome its attempts have ended in
    gathered,      \* per position: what bounded_fetch returned (a response or None)
    semaphore,     \* free slots of asyncio.Semaphore(5)
    fpc,           \* "off", "gather", "returned", "raised"
    responses,     \* the list fetch returned
    \* ---- runs of process_wine_list ----
    impl,          \* "core" (core/wines/wine_searcher.py) or "analysis" (core/wines/analysis/utils.py)
    input,         \* the queries of the input file, in order
    batch_size,
    fileExists,    \* os.path.exists(output_file)
    checkpoint,    \* the data rows of the output CSV, in file order
    run,           \* number of runs started so far
    pc,            \* "off", "idle", "loop", "fetched", "done", "crashed"
    processed_wines,
    wines_to_process,
    idx,           \* the loop variable i of "for i in range(0, len(wines_to_process), batch_size)"
    results,       \* the dict batch_fetch_wines returned, in insertion order
    all_results,   \* analysis/utils.py: the rows process_wine_list will return
    sink,          \* save_wines_batch tasks created and not yet run: batch offset, wines
    sinkFailed,    \* save_wines_batch calls of the current run that raised
    \* ---- history (observation only) ----
    fetchCount,    \* per query: URLs dispatched to fetch for it during the current run
    startKeys,     \* the query keys the checkpoint held when the current run started
    started,       \* loop offsets of the batches the current run has begun
    faulted,       \* loop offsets of the batches of the current run that raised
    failedNow,     \* queries that got a null result in the current run
    failedBefore,  \* queries that got a null result in an earlier run
    delays,        \* loop offsets of the batches of the current run begun after a sleep
    \* ---- calls of parse_wine (core/wines/wine_searcher.py) ----
    page,          \* the HTML document given to parse_wine
    qyear,         \* the 4-digit years of the query the page was fetched for (empty: none)
    out,           \* what parse_wine did with page
    page2,         \* a second document, parsed later
    out2,          \* what parse_wine did with page2
    \* ---- a call of compose_search_url (core/wines/wine_searcher.py) ----
    keyword,       \* the keyword argument, a sequence of characters
    vintage,       \* the vintage argument, a sequence of characters ("" when not given)
    country,
    include_auction,
    url,           \* the string returned, as a sequence of pieces (<<>>: not called yet)
    \* ---- a call of fetch_v2 (core/utils.py) ----
    v2urls,        \* the urls argument
    use_proxy,
    proxy_pool,    \* what fetch_proxies returns to this call
    dispatched,    \* per URL handed to bounded_fetch: the proxy given with it
    v2pc,          \* "off", "called", "returned", "raised"
    \* ---- a call of save_wines_batch (core/wines/service.py) ----
    wines,         \* the list of records given
    wine_data,     \* the rows handed to the wines upsert
    savepc         \* "off", "called", "returned", "raised"

fetchVars == <<urls, fstate, attempts, last, seen, gathered, semaphore, fpc, responses>>
runVars == <<impl, input, batch_size, fileExists, checkpoint, run, pc, processed_wines,
             wines_to_process, idx, results>>
sinkVars == <<all_results, sink, sinkFailed>>
histVars == <<fetchCount, startKeys, started, faulted, failedNow, failedBefore, delays>>
parseVars == <<page, qyear, out, page2, out2>>
urlVars == <<keyword, vintage, country, include_auction, url>>
proxyVars == <<v2urls, use_proxy, proxy_pool, dispatched, v2pc>>
saveVars == <<wines, wine_data, savepc>>
callVars == <<urlVars, proxyVars, saveVars>>
vars == <<fetchVars, runVars, sinkVars, histVars, parseVars, callVars>>

----------------------------------------------------------------------------
\* Bounds of the model
MaxUrls == 3
MaxInput == 3
MaxBatch == 2
MaxRuns == 2
MaxConcUrls == 6
MaxVarCards == 2
MaxCards == 6

\* Program constants
STOP_AFTER_ATTEMPT == 1
SEMAPHORE_SLOTS == 5

Min(a, b) == IF a < b THEN a ELSE b

----------------------------------------------------------------------------
\* core/utils.py: responses and failures

\* What one attempt of fetch_url can end in: a 2xx response, or an exception.
Outcomes == {"ok200", "http404", "http429", "http500", "neterr", "other"}

\* The failures the documentation calls transient.
TransientOutcomes == {"neterr", "http500", "http429"}

\* The exception class fetch_url raises for a failed attempt: 429 is raised
\* explicitly as HTTPStatusError, every other non-2xx by raise_for_status();
\* a transport fault is a RequestError; anything else (e.g. httpx.InvalidURL)
\* is a plain Exception.
ExcOf(o) ==
    CASE o \in {"http404", "http429", "http500"} -> "HTTPStatusError"
      [] o = "neterr" -> "RequestError"
      [] OTHER -> "Exception"

\* retry=retry_if_exception_type((httpx.HTTPStatusError, httpx.RequestError))
RetryPredicate(exc) == exc \in {"HTTPStatusError", "RequestError"}

\* stop=stop_after_attempt(1)
StopOffByOne(attempt) == attempt > STOP_AFTER_ATTEMPT
Stop(attempt) == attempt >= STOP_AFTER_ATTEMPT

\* bounded_fetch: "except Exception" catches every exception class above.
CaughtOnlyHttpx(exc) == exc \in {"HTTPStatusError", "RequestError"}
Caught(exc) == exc \in {"HTTPStatusError", "RequestError", "Exception"}

None == [url |-> 0, status |-> 0, body |-> "none"]
Response(u, b) == [url |-> u, status |-> 200, body |-> b]

\* return [r for r in responses if r is not None]
FilterNone(rs) == SelectSeq(rs, LAMBDA r : r # None)

Terminal == {"Success", "PermanentFailure"}

----------------------------------------------------------------------------
\* core/wines/wine_searcher.py: parse_wine and extract_offers
\*
\* A page is what the XPath queries of parse_wine can see of a document:
\*   doc      "html", or "empty" (lxml's fromstring raises ParserError)
\*   idKind   h1/@data-name-id: "absent", "num" (idVal) or "nonnum"
\*   name     h1 text
\*   ogKind   og:url: "absent", "noyear", or "year" (ogYear between slashes)
\*   desc     meta description: "absent", "nodollar", "nonnum" or "num" (avg)
\*   style    product-details__styles: "absent", "sep" (has " - ") or "nosep"
\*   expanded an auto-expand-card is present
\*   countEl  offers-count span: "absent", "num" (count) or "nonnum"
\*   cards    the offer-card__container elements, in document order
\* A card has section ("present"/"absent": the price section and its main
\* price), priceKind "num" (priceVal), "nonnum" or "empty", and secKind
\* "absent", "num" (secVal), "nonnum" or "empty" for the secondary price.

\* Optional values: None is the empty set, a value v is {v}.
Nothing == {}
Some(v) == {v}

NON_VINTAGE == 1

\* class Wine(BaseModel): the declared fields (core/wines/model.py)
WineFields ==
    {"id", "wine_searcher_id", "description", "vintage", "name", "url", "region",
     "region_image", "origin", "grape_variety", "image", "producer", "average_price",
     "min_price", "wine_type", "wine_style", "offers", "offers_count"}

\* Wine(**kw): pydantic keeps the declared fields and ignores any other keyword.
Wine(kw) == [f \in (DOMAIN kw) \cap WineFields |-> kw[f]]

\* The exceptions raised while a page is parsed.
ParseExceptions == {"ParserError", "IndexError", "ValueError", "ValidationError"}

\* parse_wine: "except Exception as e: ... return None"
ParseCaughtLookupOnly(exc) == exc \in {"IndexError", "ValueError"}
ParseCaught(exc) == exc \in ParseExceptions

\* The exception, if any, that handling one offer card raises.
CardExc(c) ==
    IF c.section = "absent" THEN "IndexError"
    ELSE IF c.priceKind = "nonnum" THEN "ValueError"
    ELSE IF c.secKind = "nonnum" THEN "ValueError"
    ELSE IF c.priceKind = "empty" \/ c.secKind = "empty" THEN "ValidationError"
    ELSE "none"

\* Offer(price=price, unit_price=unit_price, ...) of a card that raises nothing
OfferOf(c) ==
    [price |-> c.priceVal,
     unit_price |-> IF c.secKind = "absent" THEN c.priceVal ELSE c.secVal]

\* extract_offers(root) -> (offers, offers_count, search_expanded); exc is the
\* first exception raised on the way, "none" if there is none.
extract_offers(pg) ==
    IF pg.expanded
    THEN [exc |-> "none", offers |-> <<>>, offers_count |-> 0, search_expanded |-> TRUE]
    ELSE IF pg.countEl = "nonnum"
    THEN [exc |-> "ValueError", offers |-> <<>>, offers_count |-> 0, search_expanded |-> FALSE]
    ELSE LET bad == {k \in 1..Len(pg.cards) : CardExc(pg.cards[k]) # "none"}
             first == CHOOSE k \in bad : \A j \in bad : k <= j
         IN  IF bad # {}
             THEN [exc |-> CardExc(pg.cards[first]), offers |-> <<>>, offers_count |-> 0,
                   search_expanded |-> FALSE]
             ELSE [exc |-> "none",
                   offers |-> [k \in 1..Len(pg.cards) |-> OfferOf(pg.cards[k])],
                   offers_count |-> IF pg.countEl = "num" THEN pg.count ELSE 0,
                   search_expanded |-> FALSE]

\* key=lambda x: x.unit_price
MinKeyPrice(offer) == offer.price
MinKey(offer) == offer.unit_price

\* min(offers, key=lambda x: x.unit_price).unit_price if offers else None
MinPrice(offers) ==
    IF offers = <<>> THEN Nothing
    ELSE LET k == CHOOSE a \in 1..Len(offers) :
                     /\ \A b \in 1..Len(offers) : MinKey(offers[a]) <= MinKey(offers[b])
                     /\ \A b \in 1..(a - 1) : MinKey(offers[b]) > MinKey(offers[a])
         IN  Some(offers[k].unit_price)

\* match = re.search(r"/(\d{4})/", og_url); vintage = str_to_vintage(...) or 1
Vintage(pg) == IF pg.ogKind = "year" THEN pg.ogYear ELSE NON_VINTAGE

\* id=str(f"{wine_searcher_id}_{vintage}"): the two numbers joined by "_"
MakeIdWithName(kw) == <<kw.wine_searcher_id, kw.vintage, kw.name>>
MakeId(kw) == <<kw.wine_searcher_id, kw.vintage>>

\* The first exception raised by the body of parse_wine's try block before the
\* Wine is built, "none" if there is none.
HeaderExc(pg) ==
    IF pg.doc = "empty" THEN "ParserError"
    ELSE IF pg.idKind = "nonnum" THEN "ValueError"
    ELSE IF pg.desc \in {"absent", "nodollar"} THEN "IndexError"
    ELSE IF pg.desc = "nonnum" THEN "ValueError"
    ELSE IF pg.style = "nosep" THEN "ValueError"
    ELSE "none"

NoRecord == [f \in {} |-> 0]

\* parse_wine(html): status "Wine" with the record, "None", or "raise" when an
\* exception leaves the function.
parse_wine_html(pg) ==
    LET ex == extract_offers(pg)
        exc == IF HeaderExc(pg) # "none" THEN HeaderExc(pg)
               ELSE IF ex.exc # "none" THEN ex.exc
               ELSE IF pg.idKind = "absent" THEN "ValidationError"
               ELSE "none"
        ctx == [wine_searcher_id |-> pg.idVal, vintage |-> Vintage(pg), name |-> pg.name]
        kw == [id |-> MakeId(ctx),
               wine_searcher_id |-> pg.idVal,
               vintage |-> Vintage(pg),
               name |-> pg.name,
               average_price |-> Some(pg.avg),
               min_price |-> MinPrice(ex.offers),
               wine_type |-> IF pg.style = "sep" THEN Some("type") ELSE Nothing,
               wine_style |-> IF pg.style = "sep" THEN Some("style") ELSE Nothing,
               offers |-> ex.offers,
               offers_count |-> ex.offers_count,
               search_expanded |-> ex.search_expanded]
    IN  IF exc = "none" THEN [status |-> "Wine", wine |-> Wine(kw)]
        ELSE IF ParseCaught(exc) THEN [status |-> "None", wine |-> NoRecord]
        ELSE [status |-> "raise", wine |-> NoRecord]

NotParsed == [status |-> "not parsed", wine |-> NoRecord]

\* The documents and queries parse_wine is applied to.
Prices == {1, 2}
Years == {2013, 2015}

AbsentSectionCard ==
    [section |-> "absent", priceKind |-> "num", priceVal |-> 1, secKind |-> "absent",
     secVal |-> 1]

Cards ==
    {AbsentSectionCard} \cup
    {c \in [section : {"present"}, priceKind : {"num", "nonnum", "empty"}, priceVal : Prices,
            secKind : {"absent", "num", "nonnum", "empty"}, secVal : Prices] :
        /\ c.priceKind # "num" => c.priceVal = 1
        /\ c.secKind # "num" => c.secVal = 1}

GoodCard(pv, sk, sv) ==
    [section |-> "present", priceKind |-> "num", priceVal |-> pv, secKind |-> sk, secVal |-> sv]

\* A page on which every region is present and well formed.
GoodPage ==
    [doc |-> "html", idKind |-> "num", idVal |-> 1, name |-> "n1", ogKind |-> "year",
     ogYear |-> 2013, desc |-> "num", avg |-> 1, style |-> "sep", expanded |-> FALSE,
     countEl |-> "num", count |-> 8, cards |-> <<>>]

EmptyDoc == [GoodPage EXCEPT !.doc = "empty"]

\* Every combination of header regions, with no card, one or two cards.
HeaderPages ==
    {[GoodPage EXCEPT !.idKind = ik, !.idVal = iv, !.ogKind = ok, !.ogYear = oy,
                      !.desc = d, !.style = st, !.expanded = e, !.countEl = ce, !.cards = cs] :
        ik \in {"absent", "num", "nonnum"}, iv \in 1..2,
        ok \in {"absent", "noyear", "year"}, oy \in Years,
        d \in {"absent", "nodollar", "nonnum", "num"},
        st \in {"absent", "sep", "nosep"}, e \in BOOLEAN,
        ce \in {"absent", "num", "nonnum"},
        cs \in {<<>>, <<GoodCard(1, "absent", 1)>>,
                <<GoodCard(2, "num", 1), GoodCard(1, "absent", 1)>>}}

\* A well-formed header with every sequence of up to MaxVarCards cards.
CardPages ==
    {[GoodPage EXCEPT !.cards = cs, !.expanded = e] :
        cs \in UNION {[1..n -> Cards] : n \in 0..MaxVarCards}, e \in BOOLEAN}

\* A well-formed header with up to MaxCards well-formed cards.
LongPages ==
    {[GoodPage EXCEPT !.cards = [k \in 1..n |-> GoodCard(((k - 1) % 2) + 1, "absent", 1)],
                      !.expanded = e, !.desc = d] :
        n \in 1..MaxCards, e \in BOOLEAN, d \in {"absent", "num"}}

Pages == {EmptyDoc} \cup HeaderPages \cup CardPages \cup LongPages

\* Pages that differ in identifier, vintage and in other content.
IdPages ==
    {[GoodPage EXCEPT !.idVal = iv, !.ogKind = ok, !.ogYear = oy, !.name = nm, !.avg = av,
                      !.cards = cs] :
        iv \in 1..2, ok \in {"noyear", "year"}, oy \in Years, nm \in {"n1", "n2"},
        av \in Prices, cs \in {<<>>, <<GoodCard(1, "absent", 1)>>}}

ParseOff ==
    /\ page = EmptyDoc /\ qyear = Nothing /\ out = NotParsed
    /\ page2 = EmptyDoc /\ out2 = NotParsed

----------------------------------------------------------------------------
\* SpecFetch: one call fetch(urls)

\* compose_search_url, fetch_v2 and save_wines_batch are not being called.
UrlOff ==
    /\ keyword = <<>> /\ vintage = <<>> /\ country = "-"
    /\ include_auction = FALSE /\ url = <<>>

ProxyOff ==
    /\ v2urls = <<>> /\ use_proxy = FALSE /\ proxy_pool = <<>>
    /\ dispatched = <<>> /\ v2pc = "off"

SaveOff == wines = <<>> /\ wine_data = <<>> /\ savepc = "off"

CallOff == UrlOff /\ ProxyOff /\ SaveOff

RunOff ==
    /\ impl = "core" /\ input = <<>> /\ batch_size = 1 /\ fileExists = FALSE
    /\ checkpoint = <<>> /\ run = 0 /\ pc = "off" /\ processed_wines = {}
    /\ wines_to_process = <<>> /\ idx = 0 /\ results = <<>>
    /\ fetchCount = [q \in 1..MaxInput |-> 0] /\ startKeys = {} /\ started = {}
    /\ faulted = {} /\ failedNow = {} /\ failedBefore = {} /\ delays = {}
    /\ all_results = <<>> /\ sink = <<>> /\ sinkFailed = 0

InitFetch ==
    /\ \E n \in 1..MaxUrls : urls = [i \in 1..n |-> i]
    /\ fstate = [i \in 1..Len(urls) |-> "Pending"]
    /\ attempts = [i \in 1..Len(urls) |-> 0]
    /\ last = [i \in 1..Len(urls) |-> "none"]
    /\ seen = [i \in 1..Len(urls) |-> {}]
    /\ gathered = [i \in 1..Len(urls) |-> None]
    /\ semaphore = SEMAPHORE_SLOTS
    /\ fpc = "gather"
    /\ responses = <<>>
    /\ RunOff
    /\ ParseOff
    /\ CallOff

\* asyncio.Semaphore(5).acquire() goes through only while a slot is free.
NoLimit == TRUE
SlotFree == semaphore > 0

\* "async with semaphore": the task takes a slot and starts its first attempt.
Acquire(i) ==
    /\ fpc = "gather"
    /\ fstate[i] = "Pending"
    /\ SlotFree
    /\ semaphore' = semaphore - 1
    /\ fstate' = [fstate EXCEPT ![i] = "Fetching"]
    /\ attempts' = [attempts EXCEPT ![i] = 1]
    /\ UNCHANGED <<urls, last, seen, gathered, fpc, responses, runVars, sinkVars, histVars, parseVars,
                   callVars>>

\* The exception exc leaves fetch_url for position i: bounded_fetch returns
\* None if it catches it, otherwise gather re-raises it out of fetch.
GiveUp(i, exc) ==
    /\ semaphore' = semaphore + 1
    /\ fstate' = [fstate EXCEPT ![i] = "PermanentFailure"]
    /\ gathered' = [gathered EXCEPT ![i] = None]
    /\ fpc' = IF Caught(exc) THEN fpc ELSE "raised"

\* The attempt in flight ends with outcome o.
Respond(i, o) ==
    /\ fpc = "gather"
    /\ fstate[i] = "Fetching"
    /\ last' = [last EXCEPT ![i] = o]
    /\ seen' = [seen EXCEPT ![i] = seen[i] \cup {o}]
    /\ IF o = "ok200"
       THEN /\ fstate' = [fstate EXCEPT ![i] = "Success"]
            /\ gathered' = [gathered EXCEPT ![i] = Response(urls[i], "page")]
            /\ semaphore' = semaphore + 1
            /\ UNCHANGED fpc
       ELSE IF RetryPredicate(ExcOf(o))
       THEN /\ fstate' = [fstate EXCEPT ![i] = "TransientFailure"]
            /\ UNCHANGED <<gathered, semaphore, fpc>>
       ELSE GiveUp(i, ExcOf(o))
    /\ UNCHANGED <<urls, attempts, responses, runVars, sinkVars, histVars, parseVars, callVars>>

\* The retry policy decides about a failure its predicate accepted: stop and
\* re-raise (reraise=True), or wait and start another attempt.
RetryOrStop(i) ==
    /\ fpc = "gather"
    /\ fstate[i] = "TransientFailure"
    /\ IF Stop(attempts[i])
       THEN /\ GiveUp(i, ExcOf(last[i]))
            /\ UNCHANGED attempts
       ELSE /\ fstate' = [fstate EXCEPT ![i] = "Fetching"]
            /\ attempts' = [attempts EXCEPT ![i] = attempts[i] + 1]
            /\ UNCHANGED <<gathered, semaphore, fpc>>
    /\ UNCHANGED <<urls, last, seen, responses, runVars, sinkVars, histVars, parseVars, callVars>>

\* asyncio.gather has every result, in input order; fetch filters and returns.
Return ==
    /\ fpc = "gather"
    /\ \A i \in 1..Len(urls) : fstate[i] \in Terminal
    /\ responses' = FilterNone([i \in 1..Len(urls) |-> gathered[i]])
    /\ fpc' = "returned"
    /\ UNCHANGED <<urls, fstate, attempts, last, seen, gathered, semaphore, runVars, sinkVars,
                   histVars, parseVars, callVars>>

NextFetch ==
    \/ \E i \in 1..Len(urls) : Acquire(i)
    \/ \E i \in 1..Len(urls), o \in Outcomes : Respond(i, o)
    \/ \E i \in 1..Len(urls) : RetryOrStop(i)
    \/ Return

SpecFetch == InitFetch /\ [][NextFetch]_vars

\* SpecConc: one call fetch(urls) with more URLs than the semaphore has slots.
\* An attempt either succeeds or ends in a transport error.  The event loop
\* runs every task that is ready and every request ends (60 s timeout), so a
\* step that stays possible is eventually taken.
InitConc ==
    /\ \E n \in 1..MaxConcUrls : urls = [i \in 1..n |-> i]
    /\ fstate = [i \in 1..Len(urls) |-> "Pending"]
    /\ attempts = [i \in 1..Len(urls) |-> 0]
    /\ last = [i \in 1..Len(urls) |-> "none"]
    /\ seen = [i \in 1..Len(urls) |-> {}]
    /\ gathered = [i \in 1..Len(urls) |-> None]
    /\ semaphore = SEMAPHORE_SLOTS
    /\ fpc = "gather"
    /\ responses = <<>>
    /\ RunOff
    /\ ParseOff
    /\ CallOff

NextConc ==
    \/ \E i \in 1..Len(urls) : Acquire(i)
    \/ \E i \in 1..Len(urls), o \in {"ok200", "neterr"} : Respond(i, o)
    \/ \E i \in 1..Len(urls) : RetryOrStop(i)
    \/ Return

SpecConc == InitConc /\ [][NextConc]_vars /\ WF_vars(NextConc)

----------------------------------------------------------------------------
\* core/wines/wine_searcher.py and core/wines/analysis/utils.py

\* Query strings are opaque names: an input file of at most MaxInput lines
\* holds at most MaxInput different ones, numbered in order of first occurrence.
Queries == 1..MaxInput

FirstOccurrenceOrder(s) ==
    \A k \in 1..Len(s) : \A q \in 1..(s[k] - 1) : \E j \in 1..(k - 1) : s[j] = q

Range(f) == {f[k] : k \in DOMAIN f}

IsPrefix(s, t) == Len(s) <= Len(t) /\ SubSeq(t, 1, Len(s)) = s

\* What fetching one query's URL gives during a batch: a page parse_wine can
\* turn into a record, a page it cannot, or no response.
PageOutcomes == {"valid", "unparseable", "fail"}

NoWine == [src |-> 0]

\* parse_wine: a Wine or None; src names the query whose URL the page came from.
parse_wine(response) ==
    IF response.body = "valid" THEN [src |-> response.url] ELSE NoWine

\* result[wine_name] = wine on an insertion-ordered dict
DictPut(d, k, v) ==
    IF \E j \in 1..Len(d) : d[j].name = k
    THEN [j \in 1..Len(d) |-> IF d[j].name = k THEN [name |-> k, wine |-> v] ELSE d[j]]
    ELSE Append(d, [name |-> k, wine |-> v])

\* fetch(urls) as batch_fetch_wines sees it: position p ended in outcome[p].
FetchAll(batch, outcome) ==
    FilterNone([p \in 1..Len(batch) |->
        IF outcome[p] = "fail" THEN None ELSE Response(batch[p], outcome[p])])

\* for wine_name, response in zip(wine_names, responses): ...
RECURSIVE ZipLoop(_, _, _, _)
ZipLoop(names, resp, k, result) ==
    IF k > Min(Len(names), Len(resp)) THEN result
    ELSE ZipLoop(names, resp, k + 1,
            DictPut(result, names[k],
                IF resp[k] # None /\ resp[k].status = 200
                THEN parse_wine(resp[k]) ELSE NoWine))

batch_fetch_wines(batch, outcome) == ZipLoop(batch, FetchAll(batch, outcome), 1, <<>>)

\* input_df[wine_name_field].unique().tolist()
RECURSIVE Dedup(_, _)
Dedup(s, acc) ==
    IF s = <<>> THEN acc
    ELSE Dedup(Tail(s), IF Head(s) \in Range(acc) THEN acc ELSE Append(acc, Head(s)))

WineNames == IF impl = "analysis" THEN Dedup(input, <<>>) ELSE input

\* processed_wines = set(row["query"] for row in reader)
LoadProcessed == IF fileExists THEN {checkpoint[k].query : k \in 1..Len(checkpoint)} ELSE {}

\* [name for name in wine_names if name not in processed_wines]
NoSkip(names, processed) == names
WinesToProcess(names, processed) == SelectSeq(names, LAMBDA n : n \notin processed)

Batch == SubSeq(wines_to_process, idx + 1, Min(idx + batch_size, Len(wines_to_process)))

\* csv_data: one row per result whose wine is not None.  bad is the set of
\* queries whose record fails to serialize (model_dump raises); only the
\* analysis orchestrator catches that per wine and goes on without the row.
CsvData(res, bad) ==
    LET kept == SelectSeq(res, LAMBDA it : it.wine # NoWine /\ it.name \notin bad)
    IN  [k \in 1..Len(kept) |-> [query |-> kept[k].name, src |-> kept[k].wine.src]]

SerializationRaises(res, bad) ==
    impl = "core" /\ \E k \in 1..Len(res) : res[k].wine # NoWine /\ res[k].name \in bad

\* open(output_file, "a") ... writer.writerow(row)
OverwriteRows(file, rows) == rows
AppendRows(file, rows) == file \o rows

\* "except Exception: ... # Continue with the next batch"
AbortRun(i) == Len(wines_to_process)
ExceptNextIndex(i) == i + batch_size

\* A csv.DictReader is an iterator: building processed_wines reads it to the
\* end, and list(reader) afterwards has nothing left.
ListAfterExhausted(rows) == <<>>

\* wines_to_save: the parsed records of the batch, in zip order
WinesToSave(batch, outcome) ==
    LET resp == FetchAll(batch, outcome)
        parsed == [k \in 1..Min(Len(batch), Len(resp)) |-> parse_wine(resp[k])]
    IN  SelectSeq(parsed, LAMBDA w : w # NoWine)

\* asyncio.create_task(save_wines_batch(wines_to_save)): the save runs as a
\* task of its own, not awaited by batch_fetch_wines.
SinkAwaited == FALSE
SinkInBackground == TRUE

\* What the save can do while batch_fetch_wines runs: nothing when it is only
\* scheduled, succeed or raise when it is awaited.
SinkOutcomes == IF SinkInBackground THEN {TRUE} ELSE BOOLEAN

AllOffsets == {k \in 0..(Len(wines_to_process) - 1) : k % batch_size = 0}

FetchOff ==
    /\ urls = <<>> /\ fstate = <<>> /\ attempts = <<>> /\ last = <<>> /\ seen = <<>>
    /\ gathered = <<>> /\ semaphore = SEMAPHORE_SLOTS /\ fpc = "off" /\ responses = <<>>

Init ==
    /\ impl \in {"core", "analysis"}
    /\ input \in {s \in UNION {[1..n -> Queries] : n \in 1..MaxInput} : FirstOccurrenceOrder(s)}
    /\ batch_size \in 1..MaxBatch
    /\ fileExists = FALSE
    /\ checkpoint = <<>>
    /\ run = 0
    /\ pc = "idle"
    /\ processed_wines = {}
    /\ wines_to_process = <<>>
    /\ idx = 0
    /\ results = <<>>
    /\ fetchCount = [q \in Queries |-> 0]
    /\ startKeys = {}
    /\ started = {}
    /\ faulted = {}
    /\ failedNow = {}
    /\ failedBefore = {}
    /\ delays = {}
    /\ all_results = <<>>
    /\ sink = <<>>
    /\ sinkFailed = 0
    /\ FetchOff
    /\ ParseOff
    /\ CallOff

\* process_wine_list up to its loop: load the checkpoint, read the input,
\* leave out what is processed (the analysis version also creates the file).
StartRun ==
    /\ pc \in {"idle", "done", "crashed"}
    /\ run < MaxRuns
    /\ run' = run + 1
    /\ processed_wines' = LoadProcessed
    /\ wines_to_process' = WinesToProcess(WineNames, LoadProcessed)
    /\ fileExists' = IF impl = "analysis" THEN TRUE ELSE fileExists
    /\ idx' = 0
    /\ results' = <<>>
    /\ pc' = "loop"
    /\ fetchCount' = [q \in Queries |-> 0]
    /\ startKeys' = LoadProcessed
    /\ started' = {}
    /\ delays' = {}
    /\ faulted' = {}
    /\ failedBefore' = IF pc = "done" THEN failedBefore \cup failedNow ELSE failedBefore
    /\ failedNow' = {}
    /\ all_results' = IF impl = "analysis" /\ fileExists
                      THEN ListAfterExhausted(checkpoint) ELSE <<>>
    /\ sink' = <<>>
    /\ sinkFailed' = 0
    /\ UNCHANGED <<impl, input, batch_size, checkpoint, fetchVars, parseVars, callVars>>

\* if i > 0: time.sleep(2), at the head of the loop body (analysis/utils.py
\* only; the loop of core/wines/wine_searcher.py has no sleep)
SleepsBeforeBatch(i) == impl = "analysis" /\ i > 0

\* The head of a loop iteration (the sleep, where there is one) and
\* results = await batch_fetch_wines(batch, is_pro): fetch, parse, and hand the
\* parsed records to save_wines_batch.  sinkOk tells whether that save would
\* succeed; it decides the call only if the save is awaited.
BatchFetch(outcome, sinkOk) ==
    /\ pc = "loop"
    /\ idx < Len(wines_to_process)
    /\ fetchCount' = [q \in Queries |->
            fetchCount[q] + Cardinality({p \in 1..Len(Batch) : Batch[p] = q})]
    /\ started' = started \cup {idx}
    /\ delays' = IF SleepsBeforeBatch(idx) THEN delays \cup {idx} ELSE delays
    /\ IF WinesToSave(Batch, outcome) # <<>> /\ ~SinkInBackground /\ ~sinkOk
       THEN /\ sinkFailed' = sinkFailed + 1
            /\ faulted' = faulted \cup {idx}
            /\ idx' = ExceptNextIndex(idx)
            /\ pc' = "loop"
            /\ UNCHANGED <<results, sink>>
       ELSE /\ results' = batch_fetch_wines(Batch, outcome)
            /\ sink' = IF WinesToSave(Batch, outcome) # <<>> /\ SinkInBackground
                       THEN Append(sink, [batch |-> idx,
                                          wines |-> WinesToSave(Batch, outcome)])
                       ELSE sink
            /\ pc' = "fetched"
            /\ UNCHANGED <<sinkFailed, faulted, idx>>
    /\ UNCHANGED <<impl, input, batch_size, fileExists, checkpoint, run, processed_wines,
                   wines_to_process, startKeys, failedNow, failedBefore, all_results,
                   fetchVars, parseVars, callVars>>

\* The offset of the last batch the run has fetched
LastOffset == CHOOSE i \in started : \A j \in started : j <= i

\* A save_wines_batch task runs when the event loop has control: while the
\* orchestrator awaits the fetch of a later batch.  Once process_wine_list has
\* returned nothing awaits any more (its callers go on without an await and
\* return), so the loop makes one last pass: a task of an earlier batch that
\* only waited for its last reply can still finish, the task created by the
\* last fetch has not begun its first request.  A failure stays inside the task.
SinkStep(ok) ==
    /\ sink # <<>>
    /\ \/ pc = "loop" /\ idx < Len(wines_to_process)
       \/ pc = "done" /\ Head(sink).batch < LastOffset
    /\ sink' = Tail(sink)
    /\ sinkFailed' = IF ok THEN sinkFailed ELSE sinkFailed + 1
    /\ UNCHANGED <<all_results, runVars, histVars, fetchVars, parseVars, callVars>>

\* The rest of the try block: build csv_data, append it to the file, update
\* processed_wines; a serialization error the orchestrator does not catch per
\* wine ends the batch in the except clause before anything is written.
WriteBatch(bad) ==
    /\ pc = "fetched"
    /\ IF SerializationRaises(results, bad)
       THEN /\ faulted' = faulted \cup {idx}
            /\ idx' = ExceptNextIndex(idx)
            /\ UNCHANGED <<checkpoint, fileExists, processed_wines, failedNow, all_results>>
       ELSE /\ checkpoint' = AppendRows(checkpoint, CsvData(results, bad))
            /\ all_results' = IF impl = "analysis"
                              THEN all_results \o CsvData(results, bad) ELSE all_results
            /\ fileExists' = TRUE
            /\ processed_wines' = processed_wines \cup Range(Batch)
            /\ failedNow' = failedNow \cup
                   {results[k].name : k \in {j \in 1..Len(results) : results[j].wine = NoWine}}
            /\ idx' = idx + batch_size
            /\ UNCHANGED faulted
    /\ pc' = "loop"
    /\ UNCHANGED <<impl, input, batch_size, run, wines_to_process, results, fetchCount,
                   startKeys, started, failedBefore, delays, sink, sinkFailed, fetchVars,
                   parseVars, callVars>>

\* The append raises (an I/O error) after k rows went to the file: the except
\* clause logs it and the loop goes on; processed_wines is not updated.
WriteFault(k) ==
    /\ pc = "fetched"
    /\ k \in 0..Len(CsvData(results, {}))
    /\ checkpoint' = AppendRows(checkpoint, SubSeq(CsvData(results, {}), 1, k))
    /\ fileExists' = (fileExists \/ k > 0)
    /\ faulted' = faulted \cup {idx}
    /\ idx' = ExceptNextIndex(idx)
    /\ pc' = "loop"
    /\ UNCHANGED <<impl, input, batch_size, run, processed_wines, wines_to_process, results,
                   fetchCount, startKeys, started, failedNow, failedBefore, delays, sinkVars,
                   fetchVars, parseVars, callVars>>

\* The process is killed or cancelled: between batches, during a fetch, or
\* during the append after k rows reached the file.
Crash(k) ==
    /\ pc \in {"loop", "fetched"}
    /\ k \in 0..(IF pc = "fetched" THEN Len(CsvData(results, {})) ELSE 0)
    /\ checkpoint' = AppendRows(checkpoint, SubSeq(CsvData(results, {}), 1, k))
    /\ fileExists' = (fileExists \/ k > 0)
    /\ pc' = "crashed"
    /\ sink' = <<>>
    /\ UNCHANGED <<impl, input, batch_size, run, processed_wines, wines_to_process, idx,
                   results, all_results, sinkFailed, histVars, fetchVars, parseVars, callVars>>

\* The loop is exhausted: "Wine processing completed".
Finish ==
    /\ pc = "loop"
    /\ idx >= Len(wines_to_process)
    /\ pc' = "done"
    /\ UNCHANGED <<impl, input, batch_size, fileExists, checkpoint, run, processed_wines,
                   wines_to_process, idx, results, sinkVars, histVars, fetchVars, parseVars,
                   callVars>>

Next ==
    \/ StartRun
    \/ \E outcome \in [1..Len(Batch) -> PageOutcomes], sinkOk \in SinkOutcomes :
          BatchFetch(outcome, sinkOk)
    \/ \E bad \in SUBSET Queries : WriteBatch(bad)
    \/ \E k \in 0..MaxBatch : WriteFault(k)
    \/ \E k \in 0..MaxBatch : Crash(k)
    \/ Finish

Spec == Init /\ [][Next]_vars

\* asyncio.run(analyze_auction_catalog(...)) returns: the loop is closed and
\* the tasks that have not finished are cancelled; they stay in sink, never run.
LoopEnd ==
    /\ pc = "done"
    /\ pc' = "ended"
    /\ UNCHANGED <<impl, input, batch_size, fileExists, checkpoint, run, processed_wines,
                   wines_to_process, idx, results, sinkVars, histVars, fetchVars, parseVars,
                   callVars>>

\* SpecSink: one run from a fresh output file, together with the
\* save_wines_batch tasks that the event loop runs between the orchestrator's
\* steps, until the loop is closed.
NextSink ==
    \/ pc = "idle" /\ StartRun
    \/ \E outcome \in [1..Len(Batch) -> PageOutcomes], sinkOk \in SinkOutcomes :
          BatchFetch(outcome, sinkOk)
    \/ \E ok \in BOOLEAN : SinkStep(ok)
    \/ \E bad \in SUBSET Queries : WriteBatch(bad)
    \/ \E k \in 0..MaxBatch : WriteFault(k)
    \/ \E k \in 0..MaxBatch : Crash(k)
    \/ Finish
    \/ LoopEnd

SpecSink == Init /\ [][NextSink]_vars

----------------------------------------------------------------------------
\* SpecParse: parse_wine applied to a page fetched for a query, then applied
\* again to the same HTML.  SpecId: parse_wine applied to two pages.

InitParse ==
    /\ page \in Pages
    /\ qyear \in {Nothing} \cup {Some(y) : y \in Years}
    /\ out = NotParsed
    /\ page2 = page
    /\ out2 = NotParsed
    /\ FetchOff
    /\ RunOff
    /\ CallOff

InitId ==
    /\ page \in IdPages
    /\ qyear = Nothing
    /\ out = NotParsed
    /\ page2 \in IdPages
    /\ out2 = NotParsed
    /\ FetchOff
    /\ RunOff
    /\ CallOff

\* wine = parse_wine(response.text)
Parse ==
    /\ out = NotParsed
    /\ out' = parse_wine_html(page)
    /\ UNCHANGED <<page, qyear, page2, out2, fetchVars, runVars, sinkVars, histVars, callVars>>

ParseSecond ==
    /\ out # NotParsed
    /\ out2 = NotParsed
    /\ out2' = parse_wine_html(page2)
    /\ UNCHANGED <<page, qyear, out, page2, fetchVars, runVars, sinkVars, histVars, callVars>>

NextParse == Parse \/ ParseSecond

SpecParse == InitParse /\ [][NextParse]_vars

SpecId == InitId /\ [][NextParse]_vars

----------------------------------------------------------------------------
\* Properties of process_wine_list (checked under Spec)

RowsFor(q) == {k \in 1..Len(checkpoint) : checkpoint[k].query = q}

\* C1: a query whose key the checkpoint holds when a run starts is never
\* fetched and never reaches the parser during that run; and when a run over
\* [Q1, Q2] that started with Q1 in the checkpoint and Q2 not in it is
\* complete, Q2 has been fetched exactly once.
C1_Resumable ==
    /\ \A q \in startKeys : fetchCount[q] = 0
    /\ \A k \in 1..Len(results) : results[k].name \notin startKeys
    /\ (/\ pc = "done" /\ Len(input) = 2
        /\ input[1] \in startKeys /\ input[2] \notin startKeys)
       => fetchCount[input[2]] = 1

C1_Witness ==
    /\ pc = "done" /\ run = 2 /\ input = <<1, 2>>
    /\ startKeys = {1}
    /\ fetchCount[1] = 0 /\ fetchCount[2] = 1

\* C2: when a run is complete, every input query has exactly one row in the
\* checkpoint (a null row if its fetch or its parse failed).
C2_EveryQueryOneRow ==
    pc = "done" => \A q \in Range(input) : Cardinality(RowsFor(q)) = 1

\* C3: a query that got a null result in a completed run is not fetched by a
\* later run over the same input and checkpoint.
C3_FailedNotRefetched == \A q \in failedBefore : fetchCount[q] = 0

\* C6: a batch that raises leaves the rows already in the checkpoint as they
\* are and the loop goes on with the next batch, so that a completed run has
\* begun every batch of its work list.
C6_BatchContinuation ==
    /\ [](pc = "done" => started = AllOffsets)
    /\ [][(faulted' \ faulted # {}) =>
            /\ IsPrefix(checkpoint, checkpoint')
            /\ pc' = "loop"]_vars

C6_Witness ==
    /\ pc = "done"
    /\ \E f \in faulted :
          /\ \E e \in started : e < f
          /\ \E l \in started : l > f
    /\ Len(checkpoint) >= 1

\* C7: the checkpoint only grows at its end: no step of a run, a batch
\* exception, a crash or a restart removes or alters a row already in the
\* file, or removes the file.
C7_AppendOnly ==
    [][IsPrefix(checkpoint, checkpoint') /\ (fileExists => fileExists')]_vars

C7_Witness ==
    /\ pc = "crashed"
    /\ run = 2
    /\ Cardinality(started) >= 2
    /\ Len(checkpoint) >= 2
    /\ startKeys # {}

----------------------------------------------------------------------------
\* Properties of fetch and fetch_url (checked under SpecFetch)

\* C4: the list fetch returns has one entry per input URL, and entry i is the
\* outcome (response or failure marker) of urls[i].
C4_OneResultPerUrl ==
    fpc = "returned" =>
        /\ Len(responses) = Len(urls)
        /\ \A i \in 1..Len(urls) : responses[i] = gathered[i]

\* C5: no failure of a URL makes fetch raise, and when fetch returns, the
\* response of every URL that succeeded is in the returned list, in input order.
C5_FailureIsolated ==
    /\ fpc # "raised"
    /\ fpc = "returned" =>
          responses = SelectSeq([i \in 1..Len(urls) |-> Response(urls[i], "page")],
                                LAMBDA r : fstate[r.url] = "Success")

C5_Witness ==
    /\ fpc = "returned"
    /\ \E i, j \in 1..Len(urls) :
          /\ fstate[i] = "PermanentFailure" /\ last[i] = "other"
          /\ fstate[j] = "Success"
          /\ i < j

C9_TransientIsRetried ==
    \A i \in 1..Len(urls) :
        (fstate[i] = "PermanentFailure" /\ last[i] \in TransientOutcomes) => attempts[i] >= 2

\* C10: a 4xx response other than 429 is never handed to the retry policy as
\* a retryable failure.
C10_ClientErrorNotRetryable ==
    \A i \in 1..Len(urls) : last[i] = "http404" => fstate[i] # "TransientFailure"

----------------------------------------------------------------------------
\* Concurrency of fetch (checked under SpecConc)

\* Requests in flight: tasks inside "async with semaphore".
InFlight == Cardinality({i \in 1..Len(urls) : fstate[i] \in {"Fetching", "TransientFailure"}})

\* C11: at most SEMAPHORE_SLOTS (5) requests are in flight at any moment of a
\* call, for any number of URLs, and every URL that waits for a slot is
\* eventually dispatched.
C11_BoundedConcurrency ==
    /\ [](InFlight <= SEMAPHORE_SLOTS /\ semaphore = SEMAPHORE_SLOTS - InFlight)
    /\ <>(\A i \in 1..Len(urls) : fstate[i] # "Pending")

C11_Witness ==
    /\ InFlight = SEMAPHORE_SLOTS
    /\ semaphore = 0
    /\ \E i \in 1..Len(urls) : fstate[i] = "Pending"

----------------------------------------------------------------------------
\* Properties of parse_wine (checked under SpecParse; C18 under SpecId)

\* C12: parse_wine returns a Wine or None for every document; no exception
\* leaves it.
C12_ParseTotal == out.status # "raise" /\ out2.status # "raise"

C12_Witness ==
    /\ out.status = "None"
    /\ page.doc = "html"
    /\ HeaderExc(page) = "none"
    /\ \E k \in 1..Len(page.cards) : CardExc(page.cards[k]) = "ValidationError"

\* C13: min_price of a returned record is the least unit_price of its offers,
\* and None when it has no offer.
C13_MinPrice ==
    out.status = "Wine" =>
        LET o == out.wine.offers
        IN  /\ o = <<>> => out.wine.min_price = Nothing
            /\ o # <<>> =>
                  \E k \in 1..Len(o) :
                      /\ out.wine.min_price = Some(o[k].unit_price)
                      /\ \A j \in 1..Len(o) : o[k].unit_price <= o[j].unit_price

C13_Witness ==
    /\ out.status = "Wine"
    /\ Len(out.wine.offers) = 2
    /\ out.wine.offers[1].unit_price < out.wine.offers[2].unit_price
    /\ out.wine.offers[1].price > out.wine.offers[2].price
    /\ out.wine.min_price = Some(out.wine.offers[1].unit_price)

\* Every region of the page other than the description meta is present and
\* well formed, and there is at least one offer card.
WellFormedButDescription(pg) ==
    /\ pg.doc = "html" /\ pg.idKind = "num" /\ pg.style # "nosep"
    /\ ~pg.expanded /\ pg.countEl # "nonnum"
    /\ pg.cards # <<>>
    /\ \A k \in 1..Len(pg.cards) : CardExc(pg.cards[k]) = "none"

\* C14: a page without the average-price summary but with an identifier and
\* valid offer cards gives a record with average_price = None and offers.
C14_MissingAveragePrice ==
    (out.status # "not parsed" /\ page.desc = "absent" /\ WellFormedButDescription(page)) =>
        /\ out.status = "Wine"
        /\ out.wine.average_price = Nothing
        /\ out.wine.offers # <<>>

\* C15: a returned record holds at most 5 offers.
C15_OfferCap == out.status = "Wine" => Len(out.wine.offers) <= 5

\* C16: for a page with the auto-expanded indicator the returned record has no
\* offers, min_price None, and carries search_expanded = True.
C16_ExpandedFlag ==
    (out.status = "Wine" /\ page.expanded) =>
        /\ out.wine.offers = <<>>
        /\ out.wine.min_price = Nothing
        /\ "search_expanded" \in DOMAIN out.wine
        /\ out.wine.search_expanded = TRUE

\* C17: the vintage is the year of the canonical URL when it has one, else
\* the year of the query when it has one, else 1.
C17_VintageResolution ==
    out.status = "Wine" =>
        out.wine.vintage =
            IF page.ogKind = "year" THEN page.ogYear
            ELSE IF qyear # Nothing THEN CHOOSE y \in qyear : TRUE
            ELSE NON_VINTAGE

\* C18: two parses whose pages carry the same identifier and resolve to the
\* same vintage give the same id, whatever else differs on the pages; parsing
\* the same HTML again gives the same id.
C18_StableId ==
    (out.status = "Wine" /\ out2.status = "Wine") =>
        /\ (/\ out.wine.wine_searcher_id = out2.wine.wine_searcher_id
            /\ out.wine.vintage = out2.wine.vintage) => out.wine.id = out2.wine.id
        /\ page = page2 => out.wine.id = out2.wine.id

C18_Witness ==
    /\ out.status = "Wine" /\ out2.status = "Wine"
    /\ page.idVal = page2.idVal
    /\ out.wine.vintage = out2.wine.vintage
    /\ page.name # page2.name /\ page.cards # page2.cards /\ page.avg # page2.avg
    /\ out.wine.id = out2.wine.id

----------------------------------------------------------------------------
\* C19: when process_wine_list of analysis/utils.py has finished, the value it
\* returns holds every row of the checkpoint: the rows that were there before
\* the run as well as the rows the run added (in a run none of whose batches
\* raised).
C19_ReturnsFullSet ==
    (pc = "done" /\ impl = "analysis" /\ faulted = {}) =>
        \A k \in 1..Len(checkpoint) :
            \E j \in 1..Len(all_results) : all_results[j] = checkpoint[k]

\* C20: a save_wines_batch that raises leaves the orchestration alone: the
\* step in which it raises changes nothing of the run, and every call of
\* batch_fetch_wines returns its result map to process_wine_list, which goes
\* on to write it.
C20_SinkFailureContained ==
    /\ [][sinkFailed' > sinkFailed =>
              UNCHANGED <<runVars, histVars, all_results>>]_vars
    /\ [][(\E q \in Queries : fetchCount'[q] > fetchCount[q]) =>
              /\ pc' = "fetched"
              /\ \E outcome \in [1..Len(Batch) -> PageOutcomes] :
                     results' = batch_fetch_wines(Batch, outcome)]_vars

C20_Witness ==
    /\ pc = "done"
    /\ sinkFailed > 0
    /\ faulted = {}
    /\ wines_to_process # <<>>
    /\ Range(wines_to_process) \subseteq processed_wines

----------------------------------------------------------------------------
\* C21: every save_wines_batch task that a batch of the run created has been
\* executed by the time the run has returned and its event loop has ended,
\* the task of the last batch included.
C21_SinkEventuallyRuns == pc = "ended" => sink = <<>>

----------------------------------------------------------------------------
\* core/wines/wine_searcher.py: compose_search_url.  A string is a sequence of
\* pieces: single characters for the keyword and the vintage, whole literals
\* for the fixed parts of the URL.

MaxSegs == 4

DigitChars == {"0", "1", "2", "3", "5", "7", "9"}
LowerChars == {"x"}
SpaceChars == {" "}

\* re.search(r"(\d{4})", s): the start of the leftmost run of four digits, 0
\* when there is none
FirstMatch(s) ==
    LET starts == {i \in 1..Len(s) : i + 3 <= Len(s) /\ \A j \in i..(i + 3) : s[j] \in DigitChars}
    IN  IF starts = {} THEN 0 ELSE CHOOSE i \in starts : \A j \in starts : i <= j

\* re.sub(r"(\d{4})", "", s): every match goes, leftmost first, not overlapping
RECURSIVE SubAll(_)
SubAll(s) ==
    LET m == FirstMatch(s)
    IN  IF m = 0 THEN s
        ELSE SubSeq(s, 1, m - 1) \o SubAll(SubSeq(s, m + 4, Len(s)))

\* str.strip()
RECURSIVE Strip(_)
Strip(s) ==
    IF s = <<>> THEN s
    ELSE IF Head(s) \in SpaceChars THEN Strip(Tail(s))
    ELSE IF s[Len(s)] \in SpaceChars THEN Strip(SubSeq(s, 1, Len(s) - 1))
    ELSE s

FIND_PREFIX == "https://www.wine-searcher.com/find/"
FILTER_SUFFIX == "/-/ndbipe?Xsort_order=p&Xcurrencycode=USD&Xsavecurrency=Y"

compose_search_url(kw, vin, ctry, auction) ==
    LET m == IF vin = <<>> THEN FirstMatch(kw) ELSE 0
        vin2 == IF m > 0 THEN SubSeq(kw, m, m + 3) ELSE vin
        kw2 == IF m > 0 THEN Strip(SubAll(kw)) ELSE kw
    IN  <<FIND_PREFIX>> \o kw2 \o <<"/">>
        \o (IF vin2 # <<>> THEN vin2 \o <<"/">> ELSE <<>>)
        \o (IF ~auction THEN <<ctry, FILTER_SUFFIX>> ELSE <<>>)

\* The keywords tried: up to MaxSegs pieces, each a letter, a space, a year or
\* a lone digit.
Segments ==
    {<<"M">>, <<"x">>, <<" ">>, <<"7">>, <<"1", "9", "9", "7">>, <<"2", "0", "1", "3">>}

RECURSIVE Flatten(_)
Flatten(t) == IF t = <<>> THEN <<>> ELSE Head(t) \o Flatten(Tail(t))

Keywords == {Flatten(t) : t \in UNION {[1..n -> Segments] : n \in 1..MaxSegs}}

Year2015 == <<"2", "0", "1", "5">>

InitUrl ==
    /\ keyword \in Keywords
    /\ vintage \in {<<>>, Year2015}
    /\ country \in {"-", "usa"}
    /\ include_auction \in BOOLEAN
    /\ url = <<>>
    /\ ProxyOff /\ SaveOff
    /\ FetchOff /\ RunOff /\ ParseOff

Compose ==
    /\ url = <<>>
    /\ url' = compose_search_url(keyword, vintage, country, include_auction)
    /\ UNCHANGED <<keyword, vintage, country, include_auction, proxyVars, saveVars,
                   fetchVars, runVars, sinkVars, histVars, parseVars>>

NextUrl == Compose

SpecUrl == InitUrl /\ [][NextUrl]_vars

\* The keyword segment of a composed URL: what stands between the prefix and
\* the next "/"
PathKeyword(u) ==
    LET slashes == {i \in 2..Len(u) : u[i] = "/"}
        first == CHOOSE i \in slashes : \A j \in slashes : i <= j
    IN  SubSeq(u, 2, first - 1)

\* C22: the keyword segment of the URL compose_search_url returns is
\* normalized (lowercase, runs of separators turned into one hyphen), and with
\* vintage '2015' and country 'usa' it is followed by '2015/' and the usa
\* filter suffix.
C22_KeywordNormalized ==
    url # <<>> =>
        /\ LET seg == PathKeyword(url)
           IN  /\ \A i \in 1..Len(seg) : seg[i] \in LowerChars \cup DigitChars \cup {"-"}
               /\ \A i \in 1..(Len(seg) - 1) : ~(seg[i] = "-" /\ seg[i + 1] = "-")
        /\ (vintage = Year2015 /\ country = "usa" /\ ~include_auction) =>
               SubSeq(url, Len(url) - 7, Len(url)) =
                   <<"/">> \o Year2015 \o <<"/", "usa", FILTER_SUFFIX>>

\* C23: without an explicit vintage the first 4-digit run of the keyword is
\* the vintage segment and that run alone leaves the keyword; with an explicit
\* vintage the keyword is untouched; the URL is prefix, keyword, "/", the
\* vintage and "/" if there is one, and the filter suffix unless auctions are
\* included.
C23_VintageFromKeyword ==
    url # <<>> =>
        LET m == FirstMatch(keyword)
            found == vintage = <<>> /\ m > 0
            rest == SubSeq(keyword, 1, m - 1) \o SubSeq(keyword, m + 4, Len(keyword))
            expKeyword == IF found THEN Strip(rest) ELSE keyword
            expVintage == IF found THEN SubSeq(keyword, m, m + 3) ELSE vintage
        IN  url = <<FIND_PREFIX>> \o expKeyword \o <<"/">>
                  \o (IF expVintage # <<>> THEN expVintage \o <<"/">> ELSE <<>>)
                  \o (IF ~include_auction THEN <<country, FILTER_SUFFIX>> ELSE <<>>)

----------------------------------------------------------------------------
\* core/utils.py: fetch_v2 with its proxy pool.  What the fetches return is
\* left out: only the proxy each URL is dispatched with, and whether the call
\* raises before any fetch.

MaxV2Urls == 3
MAX_PROXIES == 5

ProxyNames == {"p1", "p2", "p3"}
NoProxy == "direct"

\* What fetch_proxies(cnt) can do: return up to cnt proxies, return [] because
\* the provider's reply has code != 200, or raise (raise_for_status, a
\* connection error).
ProxyReplies(cnt) ==
    {[kind |-> "list", pool |-> p] : p \in UNION {[1..k -> ProxyNames] : k \in 0..cnt}}
    \cup {[kind |-> "code", pool |-> <<>>], [kind |-> "raise", pool |-> <<>>]}

\* next(proxy_cycle) for the i-th URL (i from 1) of itertools.cycle(pool)
CycleNext(pool, i) == pool[((i - 1) % Len(pool)) + 1]

InitProxy ==
    /\ v2urls \in {[i \in 1..n |-> i] : n \in 0..MaxV2Urls}
    /\ use_proxy \in BOOLEAN
    /\ proxy_pool = <<>>
    /\ dispatched = <<>>
    /\ v2pc = "called"
    /\ UrlOff /\ SaveOff
    /\ FetchOff /\ RunOff /\ ParseOff

\* proxy_pool = await fetch_proxies(min(5, len(urls)))
FetchProxies(reply) ==
    /\ v2pc = "called"
    /\ use_proxy
    /\ proxy_pool' = reply.pool
    /\ v2pc' = IF reply.kind = "raise" THEN "raised" ELSE "pooled"
    /\ UNCHANGED <<v2urls, use_proxy, dispatched, urlVars, saveVars,
                   fetchVars, runVars, sinkVars, histVars, parseVars>>

\* [bounded_fetch(url, next(proxy_cycle)) for url in urls]: next() on the
\* cycle of an empty pool raises StopIteration, which leaves the coroutine as
\* a RuntimeError; otherwise the fetches are gathered and the call returns.
DispatchProxied ==
    /\ v2pc = "pooled"
    /\ IF proxy_pool = <<>> /\ v2urls # <<>>
       THEN /\ v2pc' = "raised"
            /\ UNCHANGED dispatched
       ELSE /\ dispatched' = [i \in 1..Len(v2urls) |-> CycleNext(proxy_pool, i)]
            /\ v2pc' = "returned"
    /\ UNCHANGED <<v2urls, use_proxy, proxy_pool, urlVars, saveVars,
                   fetchVars, runVars, sinkVars, histVars, parseVars>>

\* [bounded_fetch(url, proxy=None) for url in urls]
DispatchDirect ==
    /\ v2pc = "called"
    /\ ~use_proxy
    /\ dispatched' = [i \in 1..Len(v2urls) |-> NoProxy]
    /\ v2pc' = "returned"
    /\ UNCHANGED <<v2urls, use_proxy, proxy_pool, urlVars, saveVars,
                   fetchVars, runVars, sinkVars, histVars, parseVars>>

NextProxy ==
    \/ \E reply \in ProxyReplies(Min(MAX_PROXIES, Len(v2urls))) : FetchProxies(reply)
    \/ DispatchProxied
    \/ DispatchDirect

SpecProxy == InitProxy /\ [][NextProxy]_vars

\* C24: with use_proxy and an empty pool fetch_v2 does not raise and fetches
\* every URL without a proxy; with a non-empty pool the i-th URL (from 0) goes
\* through pool[i mod |pool|].
C24_EmptyPoolFallsBack ==
    (use_proxy /\ v2pc \in {"pooled", "returned", "raised"}) =>
        IF proxy_pool = <<>>
        THEN /\ v2pc # "raised"
             /\ v2pc = "returned" =>
                    dispatched = [i \in 1..Len(v2urls) |-> NoProxy]
        ELSE v2pc = "returned" =>
                 \A i \in 0..(Len(v2urls) - 1) :
                     dispatched[i + 1] = proxy_pool[(i % Len(proxy_pool)) + 1]

----------------------------------------------------------------------------
\* C25: every batch of a run after the first is fetched only after a delay
\* has been taken since the batch before it ended, in core/wines/wine_searcher.py
\* and in core/wines/analysis/utils.py alike.
C25_DelayBetweenBatches == \A i \in started : i > 0 => i \in delays

----------------------------------------------------------------------------
\* C26: in the map batch_fetch_wines returns, the record under a query name
\* was parsed from the response to that query's own URL, whichever URLs of the
\* batch failed.
C26_RecordFromOwnUrl ==
    pc = "fetched" =>
        \A k \in 1..Len(results) :
            results[k].wine # NoWine => results[k].wine.src = results[k].name

\* C27: the map batch_fetch_wines returns has every query of the batch as a
\* key (mapped to its record or to None), whichever URLs of the batch failed.
C27_EveryQueryPresent ==
    pc = "fetched" => {results[k].name : k \in 1..Len(results)} = Range(Batch)

----------------------------------------------------------------------------
\* The regions of a page, other than the identifier and the canonical URL,
\* that are absent or not of the shape parse_wine expects.
Misses(pg) ==
    (IF pg.desc # "num" THEN {<<"description", 0>>} ELSE {})
    \cup (IF pg.style # "sep" THEN {<<"style", 0>>} ELSE {})
    \cup (IF pg.countEl # "num" THEN {<<"count", 0>>} ELSE {})
    \cup {<<"card", k>> : k \in {j \in 1..Len(pg.cards) : CardExc(pg.cards[j]) # "none"}}

\* C28: on a page whose identifier is well formed and which has exactly one
\* other region absent or unexpectedly shaped (the style text without " - ",
\* an offer card without price section or with a non-numeric price, ...),
\* parse_wine returns a record, with the fields of the other regions in it.
C28_FieldMissIsolated ==
    (/\ out # NotParsed
     /\ page.doc = "html" /\ page.idKind = "num" /\ ~page.expanded
     /\ Cardinality(Misses(page)) = 1) =>
        /\ out.status = "Wine"
        /\ out.wine.name = page.name
        /\ out.wine.wine_searcher_id = page.idVal
        /\ out.wine.vintage = Vintage(page)

----------------------------------------------------------------------------
\* C29: within one run of process_wine_list of core/wines/wine_searcher.py no
\* query is fetched more than once and none gets more than one row appended,
\* however often the input names it.
C29_NoDuplicateWork ==
    impl = "core" =>
        \A q \in Queries :
            /\ fetchCount[q] <= 1
            /\ q \notin startKeys => Cardinality(RowsFor(q)) <= 1

----------------------------------------------------------------------------
\* core/wines/service.py: save_wines_batch.  The client and the two upserts
\* are taken to succeed; what is followed is the list the function builds.

MaxWines == 3

WineIds == {"1_2013", "2_2013"}
WineNamesSaved == {"n1", "n2"}

\* The records save_wines_batch can be given: instances of Wine
SavedWines ==
    {Wine([id |-> i, name |-> n, offers |-> <<>>]) : i \in WineIds, n \in WineNamesSaved}

\* wine.updated_at: reading an attribute the model does not declare raises
\* AttributeError
HasAttr(w, f) == f \in DOMAIN w

\* for wine in wines: if wine.id not in unique_wines or wine.updated_at >
\* unique_wines[wine.id].updated_at: unique_wines[wine.id] = wine.
\* unique is the dict in insertion order; exc the exception that ends the loop.
RECURSIVE UniqueLoop(_, _, _)
UniqueLoop(ws, k, unique) ==
    IF k > Len(ws) THEN [exc |-> "none", unique |-> unique]
    ELSE LET w == ws[k]
             same == {j \in 1..Len(unique) : unique[j].id = w.id}
         IN  IF same = {} THEN UniqueLoop(ws, k + 1, Append(unique, w))
             ELSE IF ~HasAttr(w, "updated_at")
             THEN [exc |-> "AttributeError", unique |-> unique]
             ELSE LET j == CHOOSE x \in same : TRUE
                  IN  UniqueLoop(ws, k + 1,
                          IF w.updated_at > unique[j].updated_at
                          THEN [unique EXCEPT ![j] = w] ELSE unique)

\* wine.model_dump(exclude={"offers"})
DumpWithoutOffers(w) == [f \in (DOMAIN w) \ {"offers"} |-> w[f]]

InitSave ==
    /\ wines \in UNION {[1..n -> SavedWines] : n \in 0..MaxWines}
    /\ wine_data = <<>>
    /\ savepc = "called"
    /\ UrlOff /\ ProxyOff
    /\ FetchOff /\ RunOff /\ ParseOff

Save ==
    /\ savepc = "called"
    /\ LET r == UniqueLoop(wines, 1, <<>>)
       IN  IF r.exc # "none"
           THEN /\ savepc' = "raised"
                /\ UNCHANGED wine_data
           ELSE /\ wine_data' = [k \in 1..Len(r.unique) |-> DumpWithoutOffers(r.unique[k])]
                /\ savepc' = "returned"
    /\ UNCHANGED <<wines, urlVars, proxyVars, fetchVars, runVars, sinkVars, histVars,
                   parseVars>>

NextSave == Save

SpecSave == InitSave /\ [][NextSave]_vars

\* C30: whatever list of records save_wines_batch is given, two records with
\* the same id included, it does not raise and the rows it hands to the wines
\* upsert have pairwise distinct ids.
C30_OneRowPerId ==
    savepc \in {"returned", "raised"} =>
        /\ savepc = "returned"
        /\ \A a, b \in 1..Len(wine_data) : a # b => wine_data[a].id # wine_data[b].id

============================================================================
